---- MODULE Spec2Model ----
(***************************************************************************)
(* Catalog journal of fbpyutils_finance.cvm: the remote-vs-local           *)
(* reconciliation of CVM.update_cvm_catalog, the per-entry synchronizer    *)
(* _update_cvm_history_file, the post-run download stamp, and the          *)
(* get_cvm_files / update_cvm_files pair that schedules transformation.    *)
(*                                                                         *)
(* Timestamps are integers (the code compares 'YYYY-MM-DD HH:MM:SS' text,  *)
(* whose order is the order of time).  SQL NULL is NULL for numbers and    *)
(* NullStr for text.  A table is the set of its rows: the union of the     *)
(* reconciliation removes duplicate rows, and the updates never make two   *)
(* distinct rows of one table equal before the next reconciliation.        *)
(*                                                                         *)
(* The remote repository is an input of each run: update_cvm_catalog reads *)
(* index pages on which each file is absent, undated, or dated no later    *)
(* than the wall clock.  A run is a sequence of steps (reconcile and       *)
(* replace, one step per metadata row, consolidate, return) between which  *)
(* the clock may advance; the other calls on the object happen between     *)
(* runs.  SpecOverlap lets two runs on one catalog interleave their steps.  *)
(*                                                                         *)
(* SpecHeaders is the header registry: _get_cvm_updated_headers resolves   *)
(* the header lines of source files against the template and the stored    *)
(* HEADERS sheet, and _write_cvm_headers_mappings overwrites the sheet.    *)
(* SpecReader is _read_cvm_history_file: the expression compiler, the SQL  *)
(* staging, the converters and the period step.  Every cell is text; None  *)
(* and NaN are the texts "None" and "NaN".  SpecConverters applies one     *)
(* converter to a column and SpecCompiler compiles a list of mapping rows, *)
(* each over all inputs of a bounded size.  SpecMalformed is the catalog   *)
(* run on index pages that hold a link without an href.                    *)
(***************************************************************************)
EXTENDS Integers, FiniteSets, Sequences, TLC

\* ---------------------------------------------------------------- bounds
MaxTime == 1
MaxRuns == 2
MaxRows == 2

\* ------------------------------------------------------------- constants
NULL == -1
NullStr == "NULL"
NullUrl == <<>>

Times == 0..MaxTime

URL_IF_REGISTER == "FI/CAD/DADOS"
URL_IF_REGISTER_HIST == "FI/CAD/DADOS/HIST"
URL_IF_DAILY == "FI/DOC/INF_DIARIO/DADOS"
URL_IF_DAILY_HIST == "FI/DOC/INF_DIARIO/DADOS/HIST"

Kinds == {"IF_REGISTER", "IF_POSITION"}

\* The files the remote repository may publish: the directory each lives in,
\* its link and its name (the link text up to the first dot).
RemoteFiles ==
    { [dir |-> URL_IF_REGISTER,      href |-> "cad_fi.csv", name |-> "cad_fi"],
      [dir |-> URL_IF_REGISTER_HIST, href |-> "cad_fi.zip", name |-> "cad_fi"] }

FileSize == 10

\* A sub-directory link of the index page: it has no size.
DirPlaceholder ==
    [dir |-> URL_IF_REGISTER, href |-> "HIST/", name |-> "HIST/",
     last_modified |-> 0, size |-> NULL]

\* The order in which an index page lists its links; a tag without an href
\* attribute, for which a.get('href') is None, comes last.
PageOrder == <<"HIST/", "cad_fi.csv", "cad_fi.zip", NullStr>>

\* ----------------------------------------------------------------- state
VARIABLES
    now,          \* wall clock (datetime.now())
    journal,      \* table cvm_if_catalog_journal of self.CATALOG
    pc,           \* position of update_cvm_catalog: "idle", "syncing" or "done"
    before,       \* STAGE.catalog_journal: the journal read at the start of the run
    listing,      \* STAGE.if_remote_files: the remote listing of the run
    todo,         \* metadata_to_process not yet passed to the synchronizer
    results,      \* results of the synchronizer in this run
    runs,         \* number of runs of update_cvm_catalog started so far
    run,          \* the calls of update_cvm_catalog that share the journal table
    template,     \* sheet IF_HEADERS of HEADER_MAPPINGS_FILE, by kind
    registry,     \* sheet IF_HEADERS of HEADERS_FILE: the resolved mapping rows
    worker,       \* the callers of _get_cvm_updated_headers and what they hold
    reader        \* a call of _read_cvm_history_file: its input and what came back

vars == <<now, journal, pc, before, listing, todo, results, runs, run,
          template, registry, worker, reader>>

\* The positions of one CVM object, which no step of another call changes.
catalogVars == <<pc, before, listing, todo, results, runs>>

headerVars == <<template, registry, worker>>

\* What the calls on one CVM object leave alone.
beyondCatalog == <<run, headerVars, reader>>

\* What a call of update_cvm_catalog on a shared journal leaves alone.
beyondOverlap == <<catalogVars, headerVars, reader>>

\* What the functions on the header sheets leave alone.
beyondHeaders == <<now, journal, catalogVars, run, reader>>

\* What _read_cvm_history_file leaves alone.
beyondReader == <<now, journal, catalogVars, run, headerVars>>

\* --------------------------------------------------------- remote listing
UrlOf(dir, href) == <<dir, href>>

PagePosition(href) == CHOOSE i \in 1..Len(PageOrder) : PageOrder[i] = href

\* _get_url_paths: the lines of one index page, numbered in page order from 0.
get_url_paths(pages, url) ==
    LET page == {e \in pages : e.dir = url}
        index(e) == Cardinality({d \in page : PagePosition(d.href) < PagePosition(e.href)})
    IN  {[sequence |-> index(e), href |-> e.href, name |-> e.name,
          last_modified |-> e.last_modified, size |-> e.size, dir |-> e.dir] : e \in page}

\* _get_remote_files_list: the current and the history directory of one kind,
\* rows without a size dropped, tagged with history, url and kind.
get_remote_files_list(pages, kind, current_url, history_url) ==
    LET current_dir == get_url_paths(pages, current_url)
        history_dir == get_url_paths(pages, history_url)
        row(e, hist) ==
            [sequence |-> e.sequence, href |-> e.href, name |-> e.name,
             last_modified |-> e.last_modified, size |-> e.size,
             history |-> hist, url |-> e.dir, kind |-> kind]
    IN  {row(e, 0) : e \in {d \in current_dir : d.size # NULL}}
        \cup {row(e, 1) : e \in {d \in history_dir : d.size # NULL}}

\* if_remote_files of update_cvm_catalog: both kinds, url joined with href.
if_remote_files(pages) ==
    LET files == get_remote_files_list(pages, "IF_REGISTER", URL_IF_REGISTER, URL_IF_REGISTER_HIST)
                 \cup get_remote_files_list(pages, "IF_POSITION", URL_IF_DAILY, URL_IF_DAILY_HIST)
    IN  {[x EXCEPT !.url = UrlOf(x.url, x.href)] : x \in files}

\* ---------------------------------------------------------- reconciliation
\* The side of a full outer join that has no partner: every column is NULL.
NullJournalRow ==
    [sequence |-> NULL, href |-> NullStr, name |-> NullStr, last_modified |-> NULL,
     size |-> NULL, history |-> NULL, url |-> NullUrl, kind |-> NullStr,
     last_download |-> NULL, last_updated |-> NULL, process |-> NULL, active |-> NULL]

NullRemoteRow ==
    [sequence |-> NULL, href |-> NullStr, name |-> NullStr, last_modified |-> NULL,
     size |-> NULL, history |-> NULL, url |-> NullUrl, kind |-> NullStr]

\* using (href, name, kind): SQL equality, which no NULL satisfies.
JoinUsing(c, r) ==
    /\ c.href # NullStr /\ c.href = r.href
    /\ c.name # NullStr /\ c.name = r.name
    /\ c.kind # NullStr /\ c.kind = r.kind

\* catalog_journal c full outer join if_remote_files r using (href, name, kind)
FullOuterJoin(C, R) ==
    {[c |-> p[1], r |-> p[2]] : p \in {q \in C \X R : JoinUsing(q[1], q[2])}}
    \cup {[c |-> c, r |-> NullRemoteRow] : c \in {x \in C : \A r \in R : ~JoinUsing(x, r)}}
    \cup {[c |-> NullJournalRow, r |-> r] : r \in {x \in R : \A c \in C : ~JoinUsing(c, x)}}

\* The process flag kept as the journal stored it.
ProcessCaseKeepsStored(r, c) == c.process

\* case ... end process of the third select
ProcessCase(r, c) ==
    IF r.last_modified = NULL THEN 0
    ELSE IF c.last_download = NULL THEN 1
    ELSE IF r.last_modified > c.last_download THEN 1
    ELSE 0

\* first select: where c.sequence is null
SelectNew(j) ==
    [sequence |-> j.r.sequence, href |-> j.r.href, name |-> j.r.name,
     last_modified |-> j.r.last_modified, size |-> j.r.size, history |-> j.r.history,
     url |-> j.r.url, kind |-> j.r.kind,
     last_download |-> NULL, last_updated |-> NULL, process |-> 1, active |-> 1]

\* The second select keeping the stored process flag.
SelectOrphanedKeepsProcess(j) ==
    [sequence |-> j.c.sequence, href |-> j.c.href, name |-> j.c.name,
     last_modified |-> j.c.last_modified, size |-> j.c.size, history |-> j.c.history,
     url |-> j.c.url, kind |-> j.c.kind,
     last_download |-> j.c.last_download, last_updated |-> j.c.last_updated,
     process |-> j.c.process, active |-> 0]

\* second select: where r.sequence is null
SelectOrphaned(j) ==
    [sequence |-> j.c.sequence, href |-> j.c.href, name |-> j.c.name,
     last_modified |-> j.c.last_modified, size |-> j.c.size, history |-> j.c.history,
     url |-> j.c.url, kind |-> j.c.kind,
     last_download |-> j.c.last_download, last_updated |-> j.c.last_updated,
     process |-> 0, active |-> 0]

\* The third select taking last_modified from the journal row.
SelectExistingKeepsLocalDate(j) ==
    [sequence |-> j.r.sequence, href |-> j.r.href, name |-> j.r.name,
     last_modified |-> j.c.last_modified, size |-> j.r.size, history |-> j.r.history,
     url |-> j.r.url, kind |-> j.r.kind,
     last_download |-> j.c.last_download, last_updated |-> j.c.last_updated,
     process |-> ProcessCase(j.r, j.c), active |-> j.c.active]

\* third select: where r.sequence is not null
SelectExisting(j) ==
    [sequence |-> j.r.sequence, href |-> j.r.href, name |-> j.r.name,
     last_modified |-> j.r.last_modified, size |-> j.r.size, history |-> j.r.history,
     url |-> j.r.url, kind |-> j.r.kind,
     last_download |-> j.c.last_download, last_updated |-> j.c.last_updated,
     process |-> ProcessCase(j.r, j.c), active |-> j.c.active]

\* Reconcile without its second select: rows without a remote match are lost.
ReconcileDropsOrphaned(C, R) ==
    LET J == FullOuterJoin(C, R)
    IN  {SelectNew(j) : j \in {x \in J : x.c.sequence = NULL}}
        \cup {SelectExisting(j) : j \in {x \in J : x.r.sequence # NULL}}

\* The union of the three selects (union removes duplicate rows).
Reconcile(C, R) ==
    LET J == FullOuterJoin(C, R)
    IN  {SelectNew(j) : j \in {x \in J : x.c.sequence = NULL}}
        \cup {SelectOrphaned(j) : j \in {x \in J : x.r.sequence = NULL}}
        \cup {SelectExisting(j) : j \in {x \in J : x.r.sequence # NULL}}

\* metadata_to_process: the rows of the reconciled journal with a true process.
MetadataToProcess(df) == {m \in df : m.process # NULL /\ m.process # 0}

\* The order of the rows of the reconciled frame, hence of the loop over
\* metadata_to_process: the union returns its rows sorted by their columns,
\* NULL first.  Rows to process with one href agree on every column taken
\* from the remote row.
RowBefore(a, b) ==
    IF a.sequence # b.sequence THEN a.sequence < b.sequence
    ELSE IF a.href # b.href THEN PagePosition(a.href) < PagePosition(b.href)
    ELSE IF a.last_download # b.last_download THEN a.last_download < b.last_download
    ELSE IF a.last_updated # b.last_updated THEN a.last_updated < b.last_updated
    ELSE a.active < b.active

NextToProcess(rows) == CHOOSE m \in rows : \A o \in rows \ {m} : RowBefore(m, o)

\* ------------------------------------------------------------ synchronizer
\* is_nan_or_empty on a journal timestamp
is_nan_or_empty(x) == x = NULL

\* What a fetch can come to: a zip archive with members or recognised text
\* (SUCCESS), an unknown mime type (ERROR), or an exception (RAISE): urlopen
\* raises, or the archive has no members, the result list stays empty and
\* the consolidation raises on its first element.
FetchOutcomes == {"SUCCESS", "ERROR", "RAISE"}

\* _update_cvm_history_file: the outcomes open to the synchronizer for one
\* metadata row; None > str raises in the comparison itself.
update_cvm_history_file_outcomes(if_metadata) ==
    IF is_nan_or_empty(if_metadata.last_download)
       THEN FetchOutcomes
       ELSE IF if_metadata.last_modified = NULL
               THEN {"RAISE"}
               ELSE IF if_metadata.last_modified > if_metadata.last_download
                       THEN FetchOutcomes
                       ELSE {"SKIP"}

\* The first element of the result list: its status and the journal row it
\* was called for, which on SUCCESS carries the time of the fetch as its
\* last_download (the synchronizer writes it into the dict it was given).
SyncResult(if_metadata, outcome, download_time) ==
    [status |-> outcome,
     metadata |-> IF outcome = "SUCCESS"
                     THEN [if_metadata EXCEPT !.last_download = download_time]
                     ELSE if_metadata]

\* ------------------------------------------------------------ consolidation
\* result_data: (name, kind, status) of the results that are not SKIP
ResultData(res) == {r \in res : r.status # "SKIP"}

\* update_results: one group per (name, kind) with its counts
Errors(res, name, kind) ==
    Cardinality({r \in ResultData(res) :
        r.metadata.name = name /\ r.metadata.kind = kind /\ r.status = "ERROR"})

Successes(res, name, kind) ==
    Cardinality({r \in ResultData(res) :
        r.metadata.name = name /\ r.metadata.kind = kind /\ r.status = "SUCCESS"})

Skips(res, name, kind) ==
    Cardinality({r \in ResultData(res) :
        r.metadata.name = name /\ r.metadata.kind = kind /\ r.status = "SKIP"})

UpdateGroups(res) ==
    {<<r.metadata.name, r.metadata.kind>> : r \in ResultData(res)}

\* a column used as a condition of a where clause: NULL and 0 are not true
Truthy(x) == x # NULL /\ x # 0

\* The stamp without the test errors == 0.
StampWhereIgnoresErrors(row, res) ==
    \E g \in UpdateGroups(res) :
        /\ (Successes(res, g[1], g[2]) > 0 \/ Skips(res, g[1], g[2]) > 0)
        /\ row.name = g[1]
        /\ row.kind = g[2]
        /\ Truthy(row.process)
        /\ Truthy(row.active)

\* The stamp without the condition on process.
StampWhereIgnoresProcess(row, res) ==
    \E g \in UpdateGroups(res) :
        /\ Errors(res, g[1], g[2]) = 0
        /\ (Successes(res, g[1], g[2]) > 0 \/ Skips(res, g[1], g[2]) > 0)
        /\ row.name = g[1]
        /\ row.kind = g[2]
        /\ Truthy(row.active)

\* where name = .. and kind = .. and process and active, for a group that passes
\* errors == 0 and (successes > 0 or skips > 0)
StampWhere(row, res) ==
    \E g \in UpdateGroups(res) :
        /\ Errors(res, g[1], g[2]) = 0
        /\ (Successes(res, g[1], g[2]) > 0 \/ Skips(res, g[1], g[2]) > 0)
        /\ row.name = g[1]
        /\ row.kind = g[2]
        /\ Truthy(row.process)
        /\ Truthy(row.active)

\* the update statements of the consolidation, applied to the journal table
StampJournal(tbl, res, download_time) ==
    {IF StampWhere(row, res)
        THEN [row EXCEPT !.last_download = download_time, !.process = 0]
        ELSE row : row \in tbl}

\* ---------------------------------------------------------- transformation
\* get_cvm_files: the where clause as SQL parses it (and binds before or)
GetCvmFilesWhere(row, kind, history) ==
    \/ /\ Truthy(row.active)
       /\ row.kind = kind
       /\ row.history = history
       /\ row.last_updated = NULL
    \/ /\ row.last_download # NULL
       /\ row.last_updated # NULL
       /\ row.last_download > row.last_updated

\* the rows the query selects, and what get_cvm_files returns for them
GetCvmFilesRows(tbl, kind, history) == {x \in tbl : GetCvmFilesWhere(x, kind, history)}

get_cvm_files(tbl, kind, history) ==
    {<<row.kind, row.name, row.history>> : row \in GetCvmFilesRows(tbl, kind, history)}

\* update_cvm_files: where active and process and kind = .. and name = ..
UpdateCvmFilesWhere(row, kind, name) ==
    /\ Truthy(row.active)
    /\ Truthy(row.process)
    /\ row.kind = kind
    /\ row.name = name

update_cvm_files(tbl, kind, name, last_update) ==
    {IF UpdateCvmFilesWhere(row, kind, name)
        THEN [row EXCEPT !.last_updated = last_update]
        ELSE row : row \in tbl}

\* ---------------------------------------------------------- header registry
\* A cell without a value: None in a row the code builds or reads with
\* read_sql, NaN in a row read from a sheet with read_excel.
None == "None"

NaN == "NaN"

\* str.upper() on the parts of the file names in use.
Upper(x) ==
    CASE x = "if_register" -> "IF_REGISTER"
      [] x = "if_position" -> "IF_POSITION"
      [] x = "if_balance" -> "IF_BALANCE"
      [] x = "cad" -> "CAD"
      [] x = "fi" -> "FI"
      [] x = "hist" -> "HIST"
      [] x = "sit" -> "SIT"
      [] x = "inf" -> "INF"
      [] x = "diario" -> "DIARIO"
      [] x = "cadastral" -> "CADASTRAL"
      [] x = "extrato" -> "EXTRATO"
      [] OTHER -> x

UpperAll(tokens) == [i \in 1..Len(tokens) |-> Upper(tokens[i])]

\* s.startswith(prefix), both split at '_'
StartsWith(tokens, prefix) ==
    /\ Len(tokens) >= Len(prefix)
    /\ \A i \in 1..Len(prefix) : tokens[i] = prefix[i]

CAD_FI == <<"CAD", "FI">>

DIARIO_FI == <<"DIARIO", "FI">>

\* SU.hash_string(';'.join([kind, sub_kind, line])): the digest stands for the
\* text it was computed from.
hash_string(kind, sub_kind, line) == <<kind, sub_kind, line>>

\* _get_cvm_file_metadata: a file is the parts of its name between the dots
\* (the first, and the one before the extension split at '_') and the fields
\* of its first line.
get_cvm_file_metadata(cvm_file) ==
    LET kind == Upper(cvm_file.kind_part)
        metadata_file == cvm_file.metadata_file
        sub_kind ==
            IF metadata_file = <<"cad", "fi">>
               \/ StartsWith(metadata_file, <<"inf", "cadastral", "fi">>)
               THEN CAD_FI
               ELSE IF StartsWith(metadata_file, <<"inf", "diario", "fi">>)
                       THEN DIARIO_FI
                       ELSE UpperAll(metadata_file)
    IN  [Kind |-> kind, Sub_Kind |-> sub_kind, Header |-> cvm_file.line,
         Hash |-> hash_string(kind, sub_kind, cvm_file.line)]

\* Rows of the sheet IF_HEADERS of HEADER_MAPPINGS_FILE (the curated template).
TemplateRow(order, target, source, transformation, converter) ==
    [Order |-> order, Target_Field |-> target, Source_Field |-> source,
     Transformation1 |-> transformation, Transformation2 |-> None,
     Transformation3 |-> None, Converter |-> converter]

RegisterId == TemplateRow(1, "cnpj", "CNPJ_FUNDO", None, "as_string_id")

RegisterDate == TemplateRow(2, "start_date", "DT_REG", "date($X)", "as_date")

\* A row whose source no header of the files has, and a row without a source.
RegisterClass == TemplateRow(2, "class", "CLASSE", "trim($X)", "as_string")

RegisterSituation == TemplateRow(3, "situation", None, None, None)

PositionId == TemplateRow(1, "cnpj", "CNPJ_FUNDO", None, "as_string_id")

PositionDate == TemplateRow(2, "position_date", "DT_COMPTC", None, "as_date")

\* The templates a curator may have saved: header_mappings, by kind.
Templates ==
    {[k \in {"IF_REGISTER"} |-> <<RegisterId>>],
     [k \in {"IF_REGISTER"} |-> <<RegisterId, RegisterDate>>],
     [k \in {"IF_REGISTER"} |-> <<RegisterId, RegisterClass, RegisterSituation>>],
     [k \in {"IF_REGISTER", "IF_POSITION"} |->
         IF k = "IF_REGISTER" THEN <<RegisterId, RegisterDate>>
                              ELSE <<PositionId, PositionDate>>]}

\* The template the package is installed with.
CuratedTemplate == [k \in {"IF_REGISTER"} |-> <<RegisterId, RegisterDate>>]

\* The history files whose headers are looked at.
SourceFiles ==
    {[kind_part |-> "if_register", metadata_file |-> <<"cad", "fi">>,
      line |-> <<"CNPJ_FUNDO", "DT_REG">>],
     [kind_part |-> "if_register", metadata_file |-> <<"cad", "fi">>,
      line |-> <<"CNPJ_FUNDO", "DT_REG", "TP_FUNDO">>],
     [kind_part |-> "if_position", metadata_file |-> <<"inf", "diario", "fi", "202401">>,
      line |-> <<"TP_FUNDO", "CNPJ_FUNDO", "DT_COMPTC">>]}

\* The rows _get_cvm_updated_headers appends to the list; Header is left out,
\* Hash stands for it.
MappingRow(src, order, target, source, t1, t2, t3, converter) ==
    [Hash |-> src.Hash, Kind |-> src.Kind, Sub_Kind |-> src.Sub_Kind,
     Order |-> order, Target_Field |-> target, Source_Field |-> source,
     Transformation1 |-> t1, Transformation2 |-> t2, Transformation3 |-> t3,
     Converter |-> converter, Is_New |-> TRUE]

Range(q) == {q[i] : i \in DOMAIN q}

\* The generated row as a copy of the template row, found or not.
GeneratedRowKeepsTemplate(src, m) ==
    MappingRow(src, m.Order, m.Target_Field, m.Source_Field, m.Transformation1,
               m.Transformation2, m.Transformation3, m.Converter)

\* the row generated for the template row m
GeneratedRow(src, m) ==
    LET found == m.Source_Field \in Range(src.Header)
    IN  MappingRow(src, m.Order, m.Target_Field,
                   IF found THEN m.Source_Field ELSE None,
                   IF found THEN m.Transformation1 ELSE None,
                   IF found THEN m.Transformation2 ELSE None,
                   IF found THEN m.Transformation3 ELSE None,
                   IF found THEN m.Converter ELSE None)

\* mapped_fields over the list as it stands: 'is not None' holds of NaN too
MappedFields(mappings) ==
    {mappings[i].Source_Field : i \in
        {j \in DOMAIN mappings :
            \/ mappings[j].Target_Field # None
            \/ mappings[j].Transformation1 # None
            \/ mappings[j].Transformation2 # None
            \/ mappings[j].Transformation3 # None}}

\* source_fields and the orders of the template rows that have a source
SourcedRows(header_mapping) ==
    {header_mapping[i] : i \in {j \in DOMAIN header_mapping :
                                   header_mapping[j].Source_Field # None}}

MaxOf(S) == CHOOSE x \in S : \A y \in S : y <= x

\* for f in fields: the rows appended for the fields from position i on
RECURSIVE OrphanRows(_, _, _, _, _)
OrphanRows(src, source_fields, mapped_fields, max_order, i) ==
    IF i > Len(src.Header) THEN <<>>
    ELSE LET f == src.Header[i]
         IN  IF f \notin source_fields /\ f \notin mapped_fields
                THEN <<MappingRow(src, max_order + 1, None, f, None, None, None, None)>>
                     \o OrphanRows(src, source_fields, mapped_fields, max_order + 1, i + 1)
                ELSE OrphanRows(src, source_fields, mapped_fields, max_order, i + 1)

\* What the function hands back: the list, or the ValueError of its except.
Returned(mappings) == [ok |-> TRUE, mappings |-> mappings]

Raised == [ok |-> FALSE, mappings |-> <<>>]

\* for m in header_mapping[:], from the template row i on: the generated row,
\* and for CAD_FI and DIARIO_FI the orphan pass, once for every template row.
RECURSIVE TemplatePass(_, _, _, _)
TemplatePass(st, src, header_mapping, i) ==
    IF ~st.ok \/ i > Len(header_mapping) THEN st
    ELSE LET generated == Append(st.mappings, GeneratedRow(src, header_mapping[i]))
         IN  IF src.Sub_Kind \in {CAD_FI, DIARIO_FI}
                THEN IF SourcedRows(header_mapping) = {}
                        THEN Raised
                        ELSE TemplatePass(
                                Returned(generated \o OrphanRows(src,
                                    {r.Source_Field : r \in SourcedRows(header_mapping)},
                                    MappedFields(generated),
                                    MaxOf({r.Order : r \in SourcedRows(header_mapping)}),
                                    1)),
                                src, header_mapping, i + 1)
                ELSE TemplatePass(Returned(generated), src, header_mapping, i + 1)

\* The two loops over the groups and their source headers, in the order the
\* queries give them; header_mappings[kind] raises KeyError for a kind without
\* a template.
RECURSIVE HeaderPass(_, _, _, _, _)
HeaderPass(st, existing_mappings, header_mappings, order, i) ==
    IF ~st.ok \/ i > Len(order) THEN st
    ELSE LET src == order[i]
         IN  IF src.Kind \notin DOMAIN header_mappings
                THEN Raised
                ELSE HeaderPass(
                        IF src.Hash \in existing_mappings
                           THEN st
                           ELSE TemplatePass(st, src, header_mappings[src.Kind], 1),
                        existing_mappings, header_mappings, order, i + 1)

\* pd.read_excel(...).to_dict('records'): the rows of the sheet, an empty cell
\* read as NaN.
ReadCell(x) == IF x = None THEN NaN ELSE x

ReadRow(row) ==
    [row EXCEPT !.Target_Field = ReadCell(@), !.Source_Field = ReadCell(@),
                !.Transformation1 = ReadCell(@), !.Transformation2 = ReadCell(@),
                !.Transformation3 = ReadCell(@), !.Converter = ReadCell(@)]

RECURSIVE SeqOf(_)
SeqOf(S) ==
    IF S = {} THEN <<>>
    ELSE LET x == CHOOSE y \in S : \A z \in S : y.Order <= z.Order
         IN  <<x>> \o SeqOf(S \ {x})

read_excel(sheet) == SeqOf({ReadRow(row) : row \in sheet})

\* the rows of a list of mapping rows that carry one hash
RowsWithHash(mappings, header_hash) ==
    SelectSeq(mappings, LAMBDA row : row.Hash = header_hash)

\* The orders in which the queries over cvm_if_source_headers_stg can give the
\* source headers: group after group.
RECURSIVE Orderings(_)
Orderings(S) ==
    IF S = {} THEN {<<>>}
    ELSE UNION {{<<x>> \o q : q \in Orderings(S \ {x})} : x \in S}

HeaderOrders(cvm_files) ==
    {q \in Orderings({get_cvm_file_metadata(f) : f \in cvm_files}) :
        \A i, j, k \in DOMAIN q :
            (i < j /\ j < k /\ q[i].Kind = q[k].Kind /\ q[i].Sub_Kind = q[k].Sub_Kind)
                => (q[j].Kind = q[i].Kind /\ q[j].Sub_Kind = q[i].Sub_Kind)}

\* The function without its test of the hashes already in the sheet.
UpdatedHeadersIgnoringRegistry(header_mappings, headers_file, order) ==
    LET mappings == read_excel(headers_file)
    IN  IF order = <<>> /\ headers_file = {}
           THEN Raised
           ELSE HeaderPass(Returned(mappings), {}, header_mappings, order, 1)

\* _get_cvm_updated_headers(cvm_files) on the template and the registry sheet
\* it finds
get_cvm_updated_headers(header_mappings, headers_file, order) ==
    LET mappings == read_excel(headers_file)
        existing_mappings == {row.Hash : row \in headers_file}
    IN  IF order = <<>> /\ existing_mappings = {}
           THEN Raised
           ELSE HeaderPass(Returned(mappings), existing_mappings, header_mappings, order, 1)

\* _write_cvm_headers_mappings: select distinct over the list, written as the
\* sheet; NaN and None are written as empty cells.
WriteCell(x) == IF x = NaN THEN None ELSE x

WriteRow(row) ==
    [row EXCEPT !.Target_Field = WriteCell(@), !.Source_Field = WriteCell(@),
                !.Transformation1 = WriteCell(@), !.Transformation2 = WriteCell(@),
                !.Transformation3 = WriteCell(@), !.Converter = WriteCell(@)]

write_cvm_headers_mappings(mappings, headers_file) ==
    IF mappings = <<>> THEN headers_file
    ELSE {WriteRow(row) : row \in Range(mappings)}

\* ------------------------------------------------------ expression compiler
\* is_nan_or_empty on a cell of a mapping row or of a data frame
is_nan_or_empty_text(x) == x \in {None, NaN, ""}

\* A transformation is text around the placeholder $X; replace('$X', e) puts
\* the expression e, a sequence of pieces of text, at every placeholder.
Pieces(transformation) ==
    CASE transformation = "date($X)" -> <<"date(", "$X", ")">>
      [] transformation = "trim($X)" -> <<"trim(", "$X", ")">>
      [] OTHER -> <<transformation>>

RECURSIVE ReplaceFrom(_, _, _)
ReplaceFrom(pieces, expression, i) ==
    IF i > Len(pieces) THEN <<>>
    ELSE (IF pieces[i] = "$X" THEN expression ELSE <<pieces[i]>>)
         \o ReplaceFrom(pieces, expression, i + 1)

Replace(transformation, expression) == ReplaceFrom(Pieces(transformation), expression, 1)

\* the expression of one mapping row, before ' AS target'
Expression(m) ==
    IF is_nan_or_empty_text(m.Source_Field) THEN <<"NULL">>
    ELSE IF is_nan_or_empty_text(m.Transformation1) THEN <<m.Source_Field>>
    ELSE IF is_nan_or_empty_text(m.Transformation2)
            THEN Replace(m.Transformation1, <<m.Source_Field>>)
    ELSE IF is_nan_or_empty_text(m.Transformation3)
            THEN Replace(m.Transformation2,
                         Replace(m.Transformation1, <<m.Source_Field>>))
    ELSE Replace(m.Transformation3,
                 Replace(m.Transformation2,
                         Replace(m.Transformation1, <<m.Source_Field>>)))

\* str.lower() on the target fields in use
Lower(x) ==
    CASE x = "CNPJ" -> "cnpj"
      [] OTHER -> x

\* The function a row without a converter gets: lambda x: None.
NoConverter == "lambda x: None"

\* The converters of fbpyutils_finance.cvm.converters.
Converters ==
    {"as_boolean", "as_date", "as_float", "as_integer", "as_string", "as_string_id"}

\* eval(m['Converter'].replace('_as_', 'as_')): the converter by its name
ConverterOf(m) ==
    IF is_nan_or_empty_text(m.Converter) THEN NoConverter
    ELSE CASE m.Converter = "_as_date" -> "as_date"
           [] m.Converter = "_as_string_id" -> "as_string_id"
           [] OTHER -> m.Converter

\* _get_expression_and_converters: the expressions in the order of the rows
\* and the converters by target field, the last row of a target winning;
\* .lower() of a target that is NaN raises, and so does eval of a name that
\* is no converter.
get_expression_and_converters(mappings) ==
    IF \E i \in DOMAIN mappings :
          \/ mappings[i].Target_Field \in {None, NaN}
          \/ ConverterOf(mappings[i]) \notin Converters \cup {NoConverter}
       THEN [ok |-> FALSE, expressions |-> <<>>, converters |-> <<>>]
       ELSE [ok |-> TRUE,
             expressions |->
                 [i \in DOMAIN mappings |->
                     [expression |-> Expression(mappings[i]),
                      as |-> Lower(mappings[i].Target_Field)]],
             converters |->
                 [t \in {mappings[i].Target_Field : i \in DOMAIN mappings} |->
                     ConverterOf(mappings[
                         MaxOf({i \in DOMAIN mappings : mappings[i].Target_Field = t})])]]

\* ---------------------------------------------------------- row transformer
\* The text a cell of a history file can hold (an empty cell is read as NaN and
\* comes out of the staging query as None), and the texts that are ISO dates.
TextCells == {"12.345/0001-10", "2024-01-02", "02/01/2024"}

IsoDates == {"2024-01-02"}

\* What a converter or a query gives for one value: the value, or the exception.
Value(x) == [raised |-> FALSE, value |-> x]

Raises == [raised |-> TRUE, value |-> None]

\* str(x).replace('/', '').replace('-', '').replace('.', '')
StripId(x) ==
    CASE x = "12.345/0001-10" -> "12345000110"
      [] x = "2024-01-02" -> "20240102"
      [] x = "02/01/2024" -> "02012024"
      [] x = "-" -> ""
      [] x = "1.5" -> "15"
      [] OTHER -> x

\* datetime.strptime(x, '%Y-%m-%d').date(), written as its isoformat
as_date(x) ==
    IF is_nan_or_empty_text(x) THEN Value(None)
    ELSE IF x \in IsoDates THEN Value(x) ELSE Raises

as_string_id(x) == IF is_nan_or_empty_text(x) THEN Value(None) ELSE Value(StripId(x))

as_string(x) == IF is_nan_or_empty_text(x) THEN Value(None) ELSE Value(x)

\* str(x).upper() in ('S', 'Y', '1')
as_boolean(x) ==
    IF is_nan_or_empty_text(x) THEN Value("False")
    ELSE IF x \in {"S", "s", "Y", "y", "1"} THEN Value("True") ELSE Value("False")

\* The texts float() parses, with str() of the float and of int() of the float;
\* on any other text float() raises ValueError.
FloatOf(x) ==
    CASE x = "12" -> "12.0"
      [] x = "1.5" -> "1.5"
      [] x = "inf" -> "inf"
      [] OTHER -> None

IntOf(x) ==
    CASE x = "12" -> "12"
      [] x = "1.5" -> "1"
      [] OTHER -> None

\* float(str(x)), None on ValueError
as_float(x) == IF is_nan_or_empty_text(x) THEN Value(None) ELSE Value(FloatOf(x))

\* int(float(x)), None on ValueError; int() of an infinite float raises
\* OverflowError, which the converter does not catch.
as_integer(x) ==
    IF is_nan_or_empty_text(x) THEN Value("0")
    ELSE IF FloatOf(x) = "inf" THEN Raises
    ELSE Value(IntOf(x))

\* v(x) for the function v registered under a converter name
Apply(converter, x) ==
    CASE converter = "as_date" -> as_date(x)
      [] converter = "as_string_id" -> as_string_id(x)
      [] converter = "as_string" -> as_string(x)
      [] converter = "as_boolean" -> as_boolean(x)
      [] converter = "as_float" -> as_float(x)
      [] converter = "as_integer" -> as_integer(x)
      [] OTHER -> Value(None)

\* SQLite on one expression and one row of if_data: a column (the names of
\* SQLite do not tell upper from lower case, so the lower-cased columns answer
\* to the field names of the header), NULL, date(..) or trim(..).
RECURSIVE EvalSql(_, _)
EvalSql(expression, row) ==
    IF Len(expression) = 1
       THEN IF expression[1] = "NULL" THEN Value(None)
            ELSE IF expression[1] \in DOMAIN row THEN Value(row[expression[1]])
            ELSE Raises
       ELSE IF Len(expression) > 2 /\ expression[Len(expression)] = ")"
                /\ expression[1] \in {"date(", "trim("}
               THEN LET inner == EvalSql(SubSeq(expression, 2, Len(expression) - 1), row)
                    IN  IF inner.raised THEN Raises
                        ELSE IF expression[1] = "date(" /\ inner.value \notin IsoDates
                                THEN Value(None)
                                ELSE inner
               ELSE Raises

\* What a function over a data frame hands back: the frame as the sequence of
\* its rows, or the ValueError.
Frame(rows) == [ok |-> TRUE, rows |-> rows]

NoFrame == [ok |-> FALSE, rows |-> <<>>]

\* _apply_expressions: SELECT e1 AS t1, e2 AS t2, .. FROM if_data
apply_expressions(data, expressions) ==
    LET columns == {expressions[i].as : i \in DOMAIN expressions}
        ExpressionOf(c) ==
            expressions[MaxOf({i \in DOMAIN expressions : expressions[i].as = c})].expression
    IN  IF \E r \in DOMAIN data : \E c \in columns : EvalSql(ExpressionOf(c), data[r]).raised
           THEN NoFrame
           ELSE Frame([r \in DOMAIN data |->
                          [c \in columns |-> EvalSql(ExpressionOf(c), data[r]).value]])

\* The columns of a frame that a converter is applied to: k in data.columns.
Converted(columns, converters) == columns \cap DOMAIN converters

\* _apply_converters where the except passes and the frame is handed back with
\* the values that did not convert as they were.
ApplyConvertersKeepingBadValues(frame, columns, converters) ==
    Frame([r \in DOMAIN frame |->
              [c \in columns |->
                  IF c \in Converted(columns, converters)
                        /\ ~Apply(converters[c], frame[r][c]).raised
                     THEN Apply(converters[c], frame[r][c]).value
                     ELSE frame[r][c]]])

\* _apply_converters: every converter over its column, or the ValueError
apply_converters(frame, columns, converters) ==
    IF \E r \in DOMAIN frame : \E c \in Converted(columns, converters) :
           Apply(converters[c], frame[r][c]).raised
       THEN NoFrame
       ELSE Frame([r \in DOMAIN frame |->
                      [c \in columns |->
                          IF c \in Converted(columns, converters)
                             THEN Apply(converters[c], frame[r][c]).value
                             ELSE frame[r][c]]])

\* datetime.now().strftime('%Y-%m-%d') on the day of the call
Today == "2024-01-02"

\* strftime('%Y') and strftime('%Y-%m') of a date
YearOf(d) == CASE d = "2024-01-02" -> "2024" [] OTHER -> None

PeriodOf(d) == CASE d = "2024-01-02" -> "2024-01" [] OTHER -> None

\* What _read_cvm_history_file hands back: kind, sub_kind, the frame and the
\* partition columns; or the ValueError of its except.
NoResult ==
    [ok |-> FALSE, kind |-> None, sub_kind |-> <<>>, rows |-> <<>>, partition_cols |-> <<>>]

\* The frame with the columns year and period taken from a date column.
PeriodFromColumn(kind, sub_kind, rows, columns, date_column) ==
    IF date_column \notin columns
          \/ \E r \in DOMAIN rows : rows[r][date_column] \notin IsoDates
       THEN NoResult
       ELSE [ok |-> TRUE, kind |-> kind, sub_kind |-> sub_kind,
             rows |-> [r \in DOMAIN rows |->
                          [c \in columns \cup {"kind", "sub_kind", "year", "period"} |->
                              CASE c = "kind" -> kind
                                [] c = "sub_kind" -> sub_kind
                                [] c = "year" -> YearOf(rows[r][date_column])
                                [] c = "period" -> PeriodOf(rows[r][date_column])
                                [] OTHER -> rows[r][c]]],
             partition_cols |-> <<"kind", "sub_kind", "year", "period">>]

\* The frame with year, period and period_date taken from the file name.
PeriodFromName(kind, sub_kind, rows, columns, metadata_file) ==
    LET last == metadata_file[Len(metadata_file)]
        date_part == IF last = "fi" THEN Today ELSE last
    IN  IF date_part \notin IsoDates
           THEN NoResult
           ELSE [ok |-> TRUE, kind |-> kind, sub_kind |-> sub_kind,
                 rows |-> [r \in DOMAIN rows |->
                              [c \in columns \cup {"kind", "sub_kind", "year", "period",
                                                   "period_date"} |->
                                  CASE c = "kind" -> kind
                                    [] c = "sub_kind" -> sub_kind
                                    [] c = "year" -> YearOf(date_part)
                                    [] c = "period" -> PeriodOf(date_part)
                                    [] c = "period_date" -> date_part
                                    [] OTHER -> rows[r][c]]],
                 partition_cols |-> <<"kind", "sub_kind", "year", "period", "period_date">>]

\* The step that accepts any sub-kind of IF_REGISTER as a dated register file.
PeriodInfoWithoutSubKindTest(kind, sub_kind, rows, columns, metadata_file) ==
    IF kind = "IF_POSITION"
       THEN PeriodFromColumn(kind, sub_kind, rows, columns, "position_date")
       ELSE IF kind = "IF_REGISTER"
               THEN IF StartsWith(sub_kind, <<"CAD", "FI", "HIST">>)
                       THEN PeriodFromColumn(kind, sub_kind, rows, columns, "start_date")
                       ELSE PeriodFromName(kind, sub_kind, rows, columns, <<"fi">>)
               ELSE NoResult

\* step COMPUTING PERIOD INFO and SELECT DATA TO RETURN
PeriodInfo(kind, sub_kind, rows, columns, metadata_file) ==
    IF kind = "IF_POSITION"
       THEN PeriodFromColumn(kind, sub_kind, rows, columns, "position_date")
       ELSE IF kind = "IF_REGISTER"
               THEN IF sub_kind = CAD_FI
                       THEN PeriodFromName(kind, sub_kind, rows, columns, metadata_file)
                       ELSE IF StartsWith(sub_kind, <<"CAD", "FI", "HIST">>)
                               THEN PeriodFromColumn(kind, sub_kind, rows, columns,
                                                     "start_date")
                               ELSE NoResult
               ELSE NoResult

\* _read_cvm_history_file(source_file, apply_converters): the file is its name
\* and first line (cvm_file) and its rows (data); headers is the sheet HEADERS.
read_cvm_history_file(cvm_file, data, headers, with_converters) ==
    LET meta == get_cvm_file_metadata(cvm_file)
        mappings == RowsWithHash(read_excel(headers), meta.Hash)
        compiled == get_expression_and_converters(mappings)
        columns == {compiled.expressions[i].as : i \in DOMAIN compiled.expressions}
        staged == apply_expressions(data, compiled.expressions)
        converted == IF with_converters
                        THEN apply_converters(staged.rows, columns, compiled.converters)
                        ELSE staged
    IN  IF mappings = <<>> \/ ~compiled.ok \/ ~staged.ok \/ ~converted.ok
           THEN NoResult
           ELSE PeriodInfo(meta.Kind, meta.Sub_Kind, converted.rows, columns,
                           cvm_file.metadata_file)

\* The callers of the header functions, and a caller that holds nothing.
Workers == {"W1", "W2"}

IdleWorker == [pc |-> "idle", found |-> {}, order |-> <<>>, result |-> Raised]

NoWorkers == [w \in Workers |-> IdleWorker]

\* No call of _read_cvm_history_file has been made.
NoRead == [pc |-> "none"]

\* ------------------------------------------------------------------ actions
\* The index pages the repository can show at time t: each file is absent,
\* listed without a date, or listed with a date that is not in the future.
ABSENT == -2

IndexPages(t) ==
    {{DirPlaceholder} \cup
      {[dir |-> f.dir, href |-> f.href, name |-> f.name,
        last_modified |-> c[f], size |-> FileSize] : f \in {g \in RemoteFiles : c[g] # ABSENT}}
     : c \in [RemoteFiles -> {ABSENT, NULL} \cup 0..t]}

\* The kind under which update_cvm_catalog lists a directory.
KindOf(f) ==
    IF f.dir \in {URL_IF_REGISTER, URL_IF_REGISTER_HIST} THEN "IF_REGISTER" ELSE "IF_POSITION"

\* The calls of update_cvm_catalog that may overlap on one journal table, and
\* the locals of a call that has not started.
Runners == {"A", "B"}

IdleRun == [pc |-> "start", read |-> {}, listing |-> {}, todo |-> {}, results |-> {}]

NoRuns == [i \in Runners |-> IdleRun]

Init ==
    /\ now = 0
    /\ journal = {}
    /\ pc = "idle"
    /\ before = {}
    /\ listing = {}
    /\ todo = {}
    /\ results = {}
    /\ runs = 0
    /\ run = NoRuns
    /\ template = CuratedTemplate
    /\ registry = {}
    /\ worker = NoWorkers
    /\ reader = NoRead

\* The clock advances.
Tick ==
    /\ now < MaxTime
    /\ now' = now + 1
    /\ UNCHANGED <<journal, pc, before, listing, todo, results, runs>>
    /\ UNCHANGED beyondCatalog

\* update_cvm_catalog up to the list of metadata to process: read the listing
\* and the journal, reconcile, replace the journal table.
StartUpdate(pages) ==
    /\ pc = "idle"
    /\ runs < MaxRuns
    /\ listing' = if_remote_files(pages)
    /\ before' = journal
    /\ journal' = Reconcile(journal, listing')
    /\ todo' = MetadataToProcess(journal')
    /\ results' = {}
    /\ pc' = "syncing"
    /\ runs' = runs + 1
    /\ UNCHANGED now
    /\ UNCHANGED beyondCatalog

\* One turn of the loop over metadata_to_process.  An exception ends the
\* run: the journal stays as the reconciliation wrote it.
SyncEntry(m) ==
    /\ pc = "syncing"
    /\ m \in todo
    /\ m = NextToProcess(todo)
    /\ \E outcome \in update_cvm_history_file_outcomes(m) :
          IF outcome = "RAISE"
             THEN /\ pc' = "idle"
                  /\ todo' = {}
                  /\ results' = {}
                  /\ before' = {}
                  /\ listing' = {}
             ELSE /\ pc' = pc
                  /\ todo' = todo \ {m}
                  /\ results' = results \cup {SyncResult(m, outcome, now)}
                  /\ UNCHANGED <<before, listing>>
    /\ UNCHANGED <<now, journal, runs>>
    /\ UNCHANGED beyondCatalog

\* The consolidation after the loop: the groups without errors are stamped
\* with the time of the consolidation and the run returns.
Consolidate ==
    /\ pc = "syncing"
    /\ todo = {}
    /\ pc' = "done"
    /\ journal' = StampJournal(journal, results, now)
    /\ UNCHANGED <<now, todo, results, before, listing, runs>>
    /\ UNCHANGED beyondCatalog

\* The caller takes what update_cvm_catalog returned.
Return ==
    /\ pc = "done"
    /\ pc' = "idle"
    /\ results' = {}
    /\ before' = {}
    /\ listing' = {}
    /\ UNCHANGED <<now, journal, todo, runs>>
    /\ UNCHANGED beyondCatalog

\* update_cvm_files([(kind, name, last_update)])
UpdateCvmFiles(kind, name, last_update) ==
    /\ pc = "idle"
    /\ journal # {}
    /\ journal' = update_cvm_files(journal, kind, name, last_update)
    /\ journal' # journal
    /\ UNCHANGED <<now, pc, before, listing, todo, results, runs>>
    /\ UNCHANGED beyondCatalog

Next ==
    \/ Tick
    \/ \E pages \in IndexPages(now) : StartUpdate(pages)
    \/ \E m \in todo : SyncEntry(m)
    \/ Consolidate
    \/ Return
    \/ \E f \in RemoteFiles : UpdateCvmFiles(KindOf(f), f.name, now)

Spec == Init /\ [][Next]_vars

\* ------------------------------------------------- overlapping catalog runs
\* Two calls of update_cvm_catalog on the same journal table (two CVM objects
\* on one catalog).  Nothing in the method holds the table between its
\* statements, so a step is one statement on the table: the read of
\* get_cvm_catalog, the to_sql replace, and the updates of the consolidation.

\* The listing is fetched and the journal is read into STAGE.
RunRead(i, pages) ==
    /\ run[i].pc = "start"
    /\ run' = [run EXCEPT ![i] = [pc |-> "read", read |-> journal,
                                  listing |-> if_remote_files(pages),
                                  todo |-> {}, results |-> {}]]
    /\ UNCHANGED <<now, journal>>
    /\ UNCHANGED beyondOverlap

\* The reconciled frame replaces the table; metadata_to_process is taken from
\* the frame.
RunReplace(i) ==
    /\ run[i].pc = "read"
    /\ journal' = Reconcile(run[i].read, run[i].listing)
    /\ run' = [run EXCEPT ![i] = [pc |-> "syncing", read |-> {}, listing |-> {},
                                  todo |-> MetadataToProcess(journal'),
                                  results |-> {}]]
    /\ UNCHANGED now
    /\ UNCHANGED beyondOverlap

\* One turn of the loop over metadata_to_process of call i.
RunSync(i) ==
    /\ run[i].pc = "syncing"
    /\ run[i].todo # {}
    /\ LET m == NextToProcess(run[i].todo)
       IN  \E outcome \in update_cvm_history_file_outcomes(m) :
              run' = [run EXCEPT ![i] =
                         IF outcome = "RAISE"
                            THEN [IdleRun EXCEPT !.pc = "finished"]
                            ELSE [@ EXCEPT !.todo = @ \ {m},
                                           !.results = @ \cup {SyncResult(m, outcome, now)}]]
    /\ UNCHANGED <<now, journal>>
    /\ UNCHANGED beyondOverlap

\* The consolidation of call i updates the table as it stands.
RunStamp(i) ==
    /\ run[i].pc = "syncing"
    /\ run[i].todo = {}
    /\ journal' = StampJournal(journal, run[i].results, now)
    /\ run' = [run EXCEPT ![i] = [IdleRun EXCEPT !.pc = "finished"]]
    /\ UNCHANGED now
    /\ UNCHANGED beyondOverlap

NextOverlap ==
    \/ Tick
    \/ \E i \in Runners : \E pages \in IndexPages(now) : RunRead(i, pages)
    \/ \E i \in Runners : RunReplace(i)
    \/ \E i \in Runners : RunSync(i)
    \/ \E i \in Runners : RunStamp(i)

SpecOverlap == Init /\ [][NextOverlap]_vars

\* ------------------------------------------------- listing with a bad link
\* An index page on which a tag of the listing has no href attribute, while
\* its line has a name, a size and possibly a date.
MalformedPages(t) ==
    {pages \cup {[dir |-> URL_IF_REGISTER, href |-> NullStr, name |-> "cad_fi",
                  last_modified |-> d, size |-> FileSize]} :
        pages \in IndexPages(t), d \in {NULL} \cup 0..t}

NextMalformed ==
    \/ Tick
    \/ \E pages \in MalformedPages(now) : StartUpdate(pages)
    \/ \E m \in todo : SyncEntry(m)
    \/ Consolidate
    \/ Return

SpecMalformed == Init /\ [][NextMalformed]_vars

\* ------------------------------------------------- header registry in use
\* A caller resolves the headers of some history files against the sheets as
\* they are, and later writes the list back or drops it (the check of
\* _check_cvm_headers_changed, or the ValueError).  The template is edited by
\* hand while no caller is at work.
InitHeaders ==
    /\ now = 0
    /\ journal = {}
    /\ pc = "idle"
    /\ before = {}
    /\ listing = {}
    /\ todo = {}
    /\ results = {}
    /\ runs = 0
    /\ run = NoRuns
    /\ template \in Templates
    /\ registry = {}
    /\ worker = NoWorkers
    /\ reader = NoRead

Curate(t) ==
    /\ \A w \in Workers : worker[w].pc = "idle"
    /\ t # template
    /\ template' = t
    /\ UNCHANGED <<registry, worker>>
    /\ UNCHANGED beyondHeaders

Discover(w, order) ==
    /\ worker[w].pc = "idle"
    /\ worker' = [worker EXCEPT ![w] =
                     [pc |-> "derived", found |-> registry, order |-> order,
                      result |-> get_cvm_updated_headers(template, registry, order)]]
    /\ UNCHANGED <<template, registry>>
    /\ UNCHANGED beyondHeaders

WriteHeaders(w) ==
    /\ worker[w].pc = "derived"
    /\ worker[w].result.ok
    /\ registry' = write_cvm_headers_mappings(worker[w].result.mappings, registry)
    /\ worker' = [worker EXCEPT ![w] = IdleWorker]
    /\ UNCHANGED template
    /\ UNCHANGED beyondHeaders

Drop(w) ==
    /\ worker[w].pc = "derived"
    /\ worker' = [worker EXCEPT ![w] = IdleWorker]
    /\ UNCHANGED <<template, registry>>
    /\ UNCHANGED beyondHeaders

NextHeaders ==
    \/ \E t \in Templates : Curate(t)
    \/ \E w \in Workers : \E fs \in SUBSET SourceFiles :
          \E order \in HeaderOrders(fs) : Discover(w, order)
    \/ \E w \in Workers : WriteHeaders(w)
    \/ \E w \in Workers : Drop(w)

SpecHeaders == InitHeaders /\ [][NextHeaders]_vars

\* ------------------------------------------------- history file transformed
\* _read_cvm_history_file over the files, rows and mapping sheets it can be
\* given: the call is made, and then it has returned or raised.
HistoryFile(kind_part, metadata_file, date_field) ==
    [kind_part |-> kind_part, metadata_file |-> metadata_file,
     line |-> <<"CNPJ_FUNDO", date_field>>]

HistoryFiles ==
    {HistoryFile("if_register", <<"cad", "fi">>, "DT_REG"),
     HistoryFile("if_register", <<"inf", "cadastral", "fi", "20240102">>, "DT_REG"),
     HistoryFile("if_register", <<"cad", "fi", "hist", "sit">>, "DT_REG"),
     HistoryFile("if_register", <<"extrato", "fi">>, "DT_REG"),
     HistoryFile("if_position", <<"inf", "diario", "fi", "202401">>, "DT_COMPTC"),
     HistoryFile("if_balance", <<"cad", "fi">>, "DT_REG")}

\* The rows a file can hold after its first line, and the frames read_csv makes
\* of them.
DataRows(cvm_file) ==
    {[f \in Range(cvm_file.line) |-> IF f = "CNPJ_FUNDO" THEN "12.345/0001-10" ELSE d] :
        d \in TextCells \cup {None}}

RECURSIVE FramesOf(_, _)
FramesOf(rows, n) ==
    IF n = 0 THEN {<<>>}
    ELSE FramesOf(rows, n - 1)
         \cup {Append(q, r) : q \in {x \in FramesOf(rows, n - 1) : Len(x) = n - 1}, r \in rows}

\* The sheets HEADERS can be for a file: without its hash, or with an id row
\* and a date row that have or lack a converter and a transformation, or with
\* a row for a field nobody has mapped yet.
HeaderSheets(cvm_file) ==
    LET src == get_cvm_file_metadata(cvm_file)
        date_target == IF src.Kind = "IF_POSITION" THEN "position_date" ELSE "start_date"
        IdRow(converter) ==
            MappingRow(src, 1, "cnpj", "CNPJ_FUNDO", None, None, None, converter)
        DateRow(transformation) ==
            MappingRow(src, 2, date_target, src.Header[2], transformation, None, None,
                       "as_date")
    IN  {{}}
        \cup {{IdRow(c), DateRow(t)} : c \in {"as_string_id", None}, t \in {"date($X)", None}}
        \cup {{IdRow("as_string_id"), DateRow(None),
               MappingRow(src, 3, None, "TP_FUNDO", None, None, None, None)}}

InitReader ==
    /\ now = 0
    /\ journal = {}
    /\ pc = "idle"
    /\ before = {}
    /\ listing = {}
    /\ todo = {}
    /\ results = {}
    /\ runs = 0
    /\ run = NoRuns
    /\ template = CuratedTemplate
    /\ registry = {}
    /\ worker = NoWorkers
    /\ \E f \in HistoryFiles :
          \E d \in FramesOf(DataRows(f), MaxRows) :
              \E h \in HeaderSheets(f) :
                  \E b \in BOOLEAN :
                      reader = [pc |-> "called", cvm_file |-> f, data |-> d, headers |-> h,
                                with_converters |-> b, out |-> NoResult]

ReadHistoryFile ==
    /\ reader.pc = "called"
    /\ reader' = [reader EXCEPT
                     !.pc = "done",
                     !.out = read_cvm_history_file(reader.cvm_file, reader.data,
                                                   reader.headers, reader.with_converters)]
    /\ UNCHANGED beyondReader

NextReader == ReadHistoryFile

SpecReader == InitReader /\ [][NextReader]_vars

\* ------------------------------------------------- converters on a column
\* The values a converter can meet in a column: a missing cell (None, or NaN
\* as pandas reads it), the empty text, the dash some files write for a blank,
\* text that is no number, numbers, and a flag.
ConverterInputs == {None, NaN, "", "-", "abc", "12", "1.5", "inf", "S"}

\* The columns of at most n cells.
RECURSIVE ColumnsOf(_)
ColumnsOf(n) ==
    IF n = 0 THEN {<<>>}
    ELSE ColumnsOf(n - 1) \cup [1..n -> ConverterInputs]

InitConverters ==
    /\ Init

\* data[k] = data[k].apply(v): the converter over every cell of one column
ApplyConverter(converter, column) ==
    /\ reader = NoRead
    /\ reader' = [pc |-> "converted", converter |-> converter, column |-> column,
                  out |-> [r \in DOMAIN column |-> Apply(converter, column[r])]]
    /\ UNCHANGED beyondReader

\* The next call starts from a fresh column.
ForgetColumn ==
    /\ reader # NoRead
    /\ reader' = NoRead
    /\ UNCHANGED beyondReader

NextConverters ==
    \/ \E converter \in Converters : \E column \in ColumnsOf(MaxRows) \ {<<>>} :
          ApplyConverter(converter, column)
    \/ ForgetColumn

SpecConverters == InitConverters /\ [][NextConverters]_vars

\* ------------------------------------------------- mapping rows compiled
\* The mapping rows a curator may have left in the sheet for one header, as
\* read_excel gives them: an empty cell is NaN.
CuratedRows ==
    {[Target_Field |-> target, Source_Field |-> source, Transformation1 |-> t1,
      Transformation2 |-> t2, Transformation3 |-> t3, Converter |-> converter] :
        target \in {"start_date", "CNPJ"}, source \in {NaN, "DT_REG"},
        t1 \in {NaN, "trim($X)"}, t2 \in {NaN, "date($X)"}, t3 \in {NaN, "trim($X)"},
        converter \in {NaN, "_as_date"}}

\* The lists of at most n mapping rows.
RECURSIVE MappingsOf(_)
MappingsOf(n) ==
    IF n = 0 THEN {<<>>}
    ELSE MappingsOf(n - 1) \cup [1..n -> CuratedRows]

InitCompiler ==
    /\ Init

\* expressions, converters = _get_expression_and_converters(mappings)
CompileMappings(mappings) ==
    /\ reader = NoRead
    /\ reader' = [pc |-> "compiled", mappings |-> mappings,
                  out |-> get_expression_and_converters(mappings)]
    /\ UNCHANGED beyondReader

\* The next call starts from another list.
ForgetMappings ==
    /\ reader # NoRead
    /\ reader' = NoRead
    /\ UNCHANGED beyondReader

NextCompiler ==
    \/ \E mappings \in MappingsOf(MaxRows) \ {<<>>} : CompileMappings(mappings)
    \/ ForgetMappings

SpecCompiler == InitCompiler /\ [][NextCompiler]_vars

\* ------------------------------------------------------------------ claims
Key(row) == <<row.href, row.name, row.kind>>

Keys(tbl) == {Key(row) : row \in tbl}

RowsOf(tbl, k) == {row \in tbl : Key(row) = k}

\* The rows the synchronizer has been or is about to be called for in this run.
Synced == {r.metadata : r \in results}

AllSucceeded == results # {} /\ \A r \in results : r.status = "SUCCESS"

\* The journal the next run writes when it meets the listing of this run again.
NextReconciled == Reconcile(journal, listing)

\* C1: the reconciled journal has exactly one row for every key of the remote
\* listing or of the old journal, and no other key.
C1_KeysPartition ==
    pc = "syncing" =>
        /\ Keys(journal) = Keys(before) \cup Keys(listing)
        /\ \A k \in Keys(journal) : Cardinality(RowsOf(journal, k)) = 1

\* C2: after a run in which every sync succeeded, the reconciliation of a second
\* run against the same listing gives process = 0 to every row of every entry
\* synced in the first run.
C2_SecondRunSchedulesNothing ==
    (pc = "done" /\ AllSucceeded) =>
        \A m \in Synced : \A row \in RowsOf(NextReconciled, Key(m)) : row.process = 0

\* C3: when every fetch succeeds, an entry is fetched at most once for each value
\* of its remote last_modified: not twice in one run, and not again by the next
\* run against the same listing.
C3_AtMostOneDownloadPerChange ==
    (pc \in {"syncing", "done"} /\ \A r \in results : r.status = "SUCCESS") =>
        /\ \A a, b \in Synced :
              (Key(a) = Key(b) /\ a.last_modified = b.last_modified) => a = b
        /\ pc = "done" =>
              \A m \in MetadataToProcess(NextReconciled) :
                  ~\E a \in Synced : Key(a) = Key(m) /\ a.last_modified = m.last_modified

\* C4: no step removes a key from the journal.
C4_NeverHardDeleted == [][Keys(journal) \subseteq Keys(journal')]_vars

C4_Witness ==
    /\ pc = "done"
    /\ \E k \in Keys(before) : k \notin Keys(listing) /\ k \in Keys(journal)

\* C5: a journal row whose key is not in the remote listing is kept with
\* process = 0 and active = 0 and every other column as it was, and it is not
\* passed to the synchronizer.
C5_OrphanedSoftDeleted ==
    pc \in {"syncing", "done"} =>
        \A k \in Keys(before) \ Keys(listing) :
            /\ RowsOf(journal, k)
                 = {[c EXCEPT !.process = 0, !.active = 0] : c \in RowsOf(before, k)}
            /\ \A m \in todo \cup Synced : Key(m) # k

C5_Witness ==
    /\ pc = "syncing"
    /\ \E c \in before : Key(c) \notin Keys(listing) /\ Truthy(c.process) /\ Truthy(c.active)

\* C6: the synchronizer is called only for rows whose active flag is true.
C6_OnlyActiveSynced == \A m \in todo \cup Synced : m.active = 1

\* C7: every row get_cvm_files selects is active, of the requested kind and
\* history bucket, and pending transformation.
C7_GetCvmFilesFilter ==
    \A kind \in Kinds, history \in {0, 1} :
        \A row \in GetCvmFilesRows(journal, kind, history) :
            /\ Truthy(row.active)
            /\ row.kind = kind
            /\ row.history = history
            /\ (row.last_updated = NULL \/ row.last_download > row.last_updated)

\* C8: update_cvm_files([(kind, name, t)]) sets last_updated = t on every active
\* row with that kind and name.
C8_UpdateCvmFilesStamps ==
    pc = "idle" =>
        \A t \in Times :
            \A row \in journal :
                Truthy(row.active) =>
                    [row EXCEPT !.last_updated = t]
                        \in update_cvm_files(journal, row.kind, row.name, t)

\* C9: after a run, the rows of an entry whose sync reported ERROR are as the
\* reconciliation wrote them: last_download as before the run, process true.
C9_ErrorLeavesLastDownload ==
    pc = "done" =>
        \A r \in results :
            r.status = "ERROR" =>
                /\ r.metadata \in journal
                /\ r.metadata.process = 1
                /\ \A row \in RowsOf(journal, Key(r.metadata)) :
                      /\ row \in Reconcile(before, listing)
                      /\ \/ \E c \in RowsOf(before, Key(row)) : c.last_download = row.last_download
                         \/ row.last_download = NULL

C9_Witness ==
    /\ pc = "done"
    /\ \E r \in results : r.status = "ERROR"
    /\ \E r \in results : r.status = "SUCCESS"

\* C10: a row whose last_download the run advanced belongs to an entry that was
\* fetched in the run with SUCCESS.
C10_AdvancedOnlyOnOwnSuccess ==
    pc = "done" =>
        \A row \in journal \ Reconcile(before, listing) :
            \E r \in results :
                /\ r.status = "SUCCESS"
                /\ row = [r.metadata EXCEPT !.last_download = row.last_download, !.process = 0]

C10_Witness ==
    /\ pc = "done"
    /\ \E row \in journal \ Reconcile(before, listing) :
          \E other \in journal :
              /\ other.name = row.name
              /\ other.kind = row.kind
              /\ other.href # row.href
              /\ Key(other) \notin Keys(Synced)
              /\ Truthy(other.active)

\* C11: a failure while syncing one entry does not end the run: the loop goes
\* on to the consolidation, which finds a result for every entry that was to
\* be processed and advances last_download for every entry synced with SUCCESS.
C11_FailureDoesNotAbortRun ==
    [][pc = "syncing" =>
          /\ pc' \in {"syncing", "done"}
          /\ pc' = "done" =>
                /\ Keys(MetadataToProcess(Reconcile(before, listing))) = Keys(Synced)
                /\ \A r \in results :
                      r.status = "SUCCESS" =>
                          \E row \in RowsOf(journal', Key(r.metadata)) :
                              row.last_download = now /\ row.process = 0]_vars

C13_StampNeverLost ==
    [][\A row \in journal :
          row.last_download # NULL =>
              \E x \in journal' : Key(x) = Key(row) /\ x.last_download # NULL]_vars

\* The rows of a list that carry the hash h, and the rows of a sheet that do.
RowsFor(mappings, h) == SelectSeq(mappings, LAMBDA row : row.Hash = h)

SheetRowsFor(sheet, h) == {row \in sheet : row.Hash = h}

Hashes(sheet) == {row.Hash : row \in sheet}

\* what the template of today generates for the source header src
FreshRows(src) ==
    IF src.Kind \in DOMAIN template
       THEN TemplatePass(Returned(<<>>), src, template[src.Kind], 1).mappings
       ELSE <<>>

\* C14: for every hash in the registry sheet, the rows _get_cvm_updated_headers
\* returns for it are the rows of the sheet, none added, removed or changed;
\* the rows after those of the sheet carry hashes the sheet does not have.
C14_ReplayStable ==
    \A w \in Workers :
        (worker[w].pc = "derived" /\ worker[w].result.ok) =>
            LET mappings == worker[w].result.mappings
                found == worker[w].found
            IN  /\ \A h \in Hashes(found) :
                      /\ Len(RowsFor(mappings, h)) = Cardinality(SheetRowsFor(found, h))
                      /\ {WriteRow(row) : row \in Range(RowsFor(mappings, h))}
                            = SheetRowsFor(found, h)
                /\ \A i \in DOMAIN mappings :
                      i > Cardinality(found) => mappings[i].Hash \notin Hashes(found)

\* a file whose hash is in the sheet is passed again, under a template that
\* would generate other rows for it, together with a file whose hash is new
C14_Witness ==
    \E w \in Workers :
        /\ worker[w].pc = "derived"
        /\ worker[w].result.ok
        /\ Len(worker[w].result.mappings) > Cardinality(worker[w].found)
        /\ \E i \in DOMAIN worker[w].order :
              LET src == worker[w].order[i]
              IN  /\ src.Hash \in Hashes(worker[w].found)
                  /\ {WriteRow(row) : row \in Range(FreshRows(src))}
                        # SheetRowsFor(worker[w].found, src.Hash)

\* The number of rows of a list that report the field f of the header with
\* hash h as unmapped.
OrphanCount(mappings, h, f) ==
    Cardinality({i \in DOMAIN mappings :
        /\ mappings[i].Hash = h
        /\ mappings[i].Target_Field = None
        /\ mappings[i].Source_Field = f})

\* The new headers of sub-kind CAD_FI or DIARIO_FI a caller has resolved.
NewHeaders(w) ==
    {worker[w].order[i] : i \in
        {j \in DOMAIN worker[w].order :
            /\ worker[w].order[j].Hash \notin Hashes(worker[w].found)
            /\ worker[w].order[j].Sub_Kind \in {CAD_FI, DIARIO_FI}}}

\* The fields of a header that no row of the template of its kind has as source.
AbsentFromTemplate(src) ==
    {f \in Range(src.Header) :
        \A i \in DOMAIN template[src.Kind] : template[src.Kind][i].Source_Field # f}

\* C15: for a new header of sub-kind CAD_FI or DIARIO_FI, every field of the
\* header that is absent from the template of its kind is reported by exactly
\* one returned row with Target_Field null and that field as Source_Field.
C15_OneOrphanRowPerField ==
    \A w \in Workers :
        (worker[w].pc = "derived" /\ worker[w].result.ok) =>
            \A src \in NewHeaders(w) :
                \A f \in AbsentFromTemplate(src) :
                    OrphanCount(worker[w].result.mappings, src.Hash, f) = 1

\* C16: a hash that is in the registry sheet stays in it with its rows, whatever
\* the callers do in whatever order: no write takes away what another caller,
\* or an earlier call, has resolved.
C16_NoResolvedHashLost ==
    [][\A h \in Hashes(registry) :
          SheetRowsFor(registry', h) = SheetRowsFor(registry, h)]_vars

\* C17: when several files are passed and the kind of one of them has no
\* template, the call still returns, with rows for every new header of the
\* files whose kind has one.
C17_SchemaErrorScopedToFile ==
    \A w \in Workers :
        (/\ worker[w].pc = "derived"
         /\ Len(worker[w].order) > 1
         /\ \E i \in DOMAIN worker[w].order : worker[w].order[i].Kind \notin DOMAIN template)
        => /\ worker[w].result.ok
           /\ \A i \in DOMAIN worker[w].order :
                 LET src == worker[w].order[i]
                 IN  (src.Kind \in DOMAIN template /\ src.Hash \notin Hashes(worker[w].found))
                        => RowsFor(worker[w].result.mappings, src.Hash) # <<>>

\* What the call in reader works on: the mapping rows of the file's hash,
\* what they compile to, and the frame before the converters.
ReaderMappings ==
    RowsWithHash(read_excel(reader.headers), get_cvm_file_metadata(reader.cvm_file).Hash)

ReaderCompiled == get_expression_and_converters(ReaderMappings)

ReaderColumns ==
    {ReaderCompiled.expressions[i].as : i \in DOMAIN ReaderCompiled.expressions}

ReaderStaged == apply_expressions(reader.data, ReaderCompiled.expressions)

\* The converters reach the frame: the call gets as far as _apply_converters.
ConvertersApplied ==
    /\ reader.pc = "done"
    /\ reader.with_converters
    /\ ReaderMappings # <<>>
    /\ ReaderCompiled.ok
    /\ ReaderStaged.ok

\* C18: the converter registered for a mapping row without a converter gives
\* back every value it is applied to, and the column of that row is in the
\* returned frame as the staging query produced it.
C18_NoConverterIsIdentity ==
    (ConvertersApplied /\ reader.out.ok) =>
        \A i \in DOMAIN ReaderMappings :
            LET m == ReaderMappings[i]
            IN  is_nan_or_empty_text(m.Converter) =>
                    /\ \A x \in TextCells :
                          Apply(ReaderCompiled.converters[m.Target_Field], x) = Value(x)
                    /\ \A r \in DOMAIN reader.out.rows :
                          reader.out.rows[r][Lower(m.Target_Field)]
                              = ReaderStaged.rows[r][Lower(m.Target_Field)]

\* Some converter raises on some value of the frame.
ConverterRaises ==
    \E r \in DOMAIN ReaderStaged.rows :
        \E c \in Converted(ReaderColumns, ReaderCompiled.converters) :
            Apply(ReaderCompiled.converters[c], ReaderStaged.rows[r][c]).raised

\* C19: when a converter raises on a value of the file, the call raises and
\* hands back no row.
C19_ConverterErrorFailsFile ==
    (ConvertersApplied /\ ConverterRaises) =>
        /\ ~reader.out.ok
        /\ reader.out.rows = <<>>

\* a converter raises on one value after another value has been converted
C19_Witness ==
    /\ ConvertersApplied
    /\ ConverterRaises
    /\ \E r \in DOMAIN ReaderStaged.rows :
          \E c \in Converted(ReaderColumns, ReaderCompiled.converters) :
              LET v == Apply(ReaderCompiled.converters[c], ReaderStaged.rows[r][c])
              IN  ~v.raised /\ v.value # ReaderStaged.rows[r][c]

\* The kinds and sub-kinds _read_cvm_history_file has a period rule for.
Supported(kind, sub_kind) ==
    \/ kind = "IF_POSITION"
    \/ /\ kind = "IF_REGISTER"
       /\ (sub_kind = CAD_FI \/ StartsWith(sub_kind, <<"CAD", "FI", "HIST">>))

\* C20: a call that returns was made for IF_POSITION, IF_REGISTER/CAD_FI or
\* IF_REGISTER/CAD_FI_HIST*, and its partition columns and every row of its
\* frame have kind, sub_kind, year and period; a call for anything else has
\* raised and handed back no row.
C20_OnlySupportedKindsReturn ==
    reader.pc = "done" =>
        LET meta == get_cvm_file_metadata(reader.cvm_file)
        IN  /\ reader.out.ok =>
                  /\ Supported(meta.Kind, meta.Sub_Kind)
                  /\ {"kind", "sub_kind", "year", "period"}
                        \subseteq Range(reader.out.partition_cols)
                  /\ \A r \in DOMAIN reader.out.rows :
                        /\ Range(reader.out.partition_cols) \subseteq DOMAIN reader.out.rows[r]
                        /\ reader.out.rows[r]["kind"] = meta.Kind
                        /\ reader.out.rows[r]["sub_kind"] = meta.Sub_Kind
                        /\ reader.out.rows[r]["year"] # None
                        /\ reader.out.rows[r]["period"] # None
            /\ ~Supported(meta.Kind, meta.Sub_Kind) =>
                  (~reader.out.ok /\ reader.out.rows = <<>>)

\* a history file of IF_REGISTER/CAD_FI_HIST* comes back with its rows
C20_Witness ==
    /\ reader.pc = "done"
    /\ reader.out.ok
    /\ reader.out.rows # <<>>
    /\ StartsWith(reader.out.sub_kind, <<"CAD", "FI", "HIST">>)

\* The blank sentinels of the files: the dash, the empty text and null.
BlankSentinels == {"-", "", None}

\* float() parses the text.
Parsable(x) == FloatOf(x) # None

\* C21: as_integer gives 0 and as_float gives null for each blank sentinel
\* ("-", the empty text, null); for any other text that is no number both give
\* null, and neither raises.
C21_BlankSentinelAsymmetry ==
    (reader.pc = "converted" /\ reader.converter \in {"as_integer", "as_float"}) =>
        \A r \in DOMAIN reader.column :
            LET x == reader.column[r]
                blank == IF reader.converter = "as_integer" THEN "0" ELSE None
            IN  /\ x \in BlankSentinels => reader.out[r] = Value(blank)
                /\ (x \notin BlankSentinels /\ ~is_nan_or_empty_text(x) /\ ~Parsable(x))
                      => reader.out[r] = Value(None)

\* The keys the run found in the listing only, and in the listing and the
\* journal both.
RemoteOnly == Keys(listing) \ Keys(before)

Matched == Keys(listing) \cap Keys(before)

\* C22: every row the reconciliation writes for a key that is in the listing
\* and not in the journal has process = 1, active = 1 and no last_download and
\* last_updated, whatever the last_modified of the entry.
C22_RemoteOnlyRowsAreFresh ==
    pc = "syncing" =>
        \A k \in RemoteOnly :
            \A row \in RowsOf(journal, k) :
                /\ row.process = 1
                /\ row.active = 1
                /\ row.last_download = NULL
                /\ row.last_updated = NULL

\* The process flag the rule gives for a remote last_modified and a local
\* last_download.
ExpectedProcess(last_modified, last_download) ==
    IF last_modified = NULL THEN 0
    ELSE IF last_download = NULL THEN 1
    ELSE IF last_modified > last_download THEN 1
    ELSE 0

\* C23: a row written for a key that is in the listing and in the journal
\* comes from a journal row of that key, and its process flag is what the rule
\* gives for the remote last_modified and that row's last_download, whatever
\* process flag the journal had stored.
C23_ProcessRecomputed ==
    pc = "syncing" =>
        \A k \in Matched :
            \A row \in RowsOf(journal, k) :
                \E r \in RowsOf(listing, k), c \in RowsOf(before, k) :
                    /\ row.last_download = c.last_download
                    /\ row.process = ExpectedProcess(r.last_modified, c.last_download)

\* the rule turns a stored flag over, both ways
C23_Witness ==
    /\ pc = "syncing"
    /\ \E k \in Matched :
          \E row \in RowsOf(journal, k), c \in RowsOf(before, k) :
              /\ row.last_download = c.last_download
              /\ row.last_download # NULL
              /\ row.process = 1
              /\ c.process = 0
    /\ \E k \in Matched :
          \E row \in RowsOf(journal, k), c \in RowsOf(before, k) :
              /\ row.last_download = c.last_download
              /\ row.last_updated = c.last_updated
              /\ row.active = c.active
              /\ row.process = 0
              /\ c.process = 1

\* C24: the rows written for a key that is in the listing and in the journal
\* have sequence, last_modified, size, history and url of the remote row, and
\* there is one for each journal row of the key with that row's last_download,
\* last_updated and active.
C24_MatchedRowsMerge ==
    pc = "syncing" =>
        \A k \in Matched :
            /\ \A row \in RowsOf(journal, k) :
                  \E r \in RowsOf(listing, k), c \in RowsOf(before, k) :
                      /\ row.sequence = r.sequence
                      /\ row.last_modified = r.last_modified
                      /\ row.size = r.size
                      /\ row.history = r.history
                      /\ row.url = r.url
                      /\ row.last_download = c.last_download
                      /\ row.last_updated = c.last_updated
                      /\ row.active = c.active
            /\ \A c \in RowsOf(before, k) :
                  \E row \in RowsOf(journal, k) :
                      /\ row.last_download = c.last_download
                      /\ row.last_updated = c.last_updated
                      /\ row.active = c.active

\* a downloaded entry is listed with another last_modified than the journal has
C24_Witness ==
    /\ pc = "syncing"
    /\ \E c \in before, r \in listing :
          /\ Key(c) = Key(r)
          /\ c.last_modified # r.last_modified
          /\ c.last_download # NULL
          /\ c.active = 1

\* The rows of an entry whose last_download the run has advanced.
Advanced(m) ==
    {row \in RowsOf(journal, Key(m)) :
        row.active = m.active /\ row \notin Reconcile(before, listing)}

\* C25: the last_download a run records for an entry it fetched with SUCCESS is
\* the time of that fetch, and a listing in which the entry's last_modified is
\* later than the fetch makes the next reconciliation set process = 1 for it.
C25_StampIsFetchTime ==
    pc = "done" =>
        \A r \in results :
            r.status = "SUCCESS" =>
                \A row \in Advanced(r.metadata) :
                    /\ row.last_download = r.metadata.last_download
                    /\ \A pages \in IndexPages(now) :
                          LET remote == if_remote_files(pages)
                          IN  \A x \in RowsOf(remote, Key(row)) :
                                  (x.last_modified # NULL
                                      /\ x.last_modified > r.metadata.last_download)
                                  => \A n \in RowsOf(Reconcile(journal, remote), Key(row)) :
                                         (n.active = row.active
                                             /\ n.last_download = row.last_download)
                                         => n.process = 1

\* The headers a caller has resolved whose hash the sheet did not have.
NewSources(w) ==
    {worker[w].order[i] : i \in
        {j \in DOMAIN worker[w].order :
            worker[w].order[j].Hash \notin Hashes(worker[w].found)}}

\* The places of a list of rows that answer to the template row m.
RowsOfTemplateRow(rows, m) ==
    {n \in DOMAIN rows :
        rows[n].Order = m.Order /\ rows[n].Target_Field = m.Target_Field}

\* C26: for a header whose hash is new, every template row of the kind has
\* exactly one returned row with its Order and Target_Field; the row is marked
\* Is_New, it has the template's Source_Field, Transformation1-3 and Converter
\* when the Source_Field is one of the fields of the header and null in all
\* five otherwise; and no other row of the hash has a Target_Field.
C26_OneRowPerTemplateRow ==
    \A w \in Workers :
        (worker[w].pc = "derived" /\ worker[w].result.ok) =>
            \A src \in NewSources(w) :
                LET rows == RowsFor(worker[w].result.mappings, src.Hash)
                    header_mapping == template[src.Kind]
                IN  /\ \A j \in DOMAIN header_mapping :
                          LET m == header_mapping[j]
                              found == m.Source_Field \in Range(src.Header)
                          IN  /\ Cardinality(RowsOfTemplateRow(rows, m)) = 1
                              /\ \A n \in RowsOfTemplateRow(rows, m) :
                                    /\ rows[n].Is_New
                                    /\ found =>
                                          /\ rows[n].Source_Field = m.Source_Field
                                          /\ rows[n].Transformation1 = m.Transformation1
                                          /\ rows[n].Transformation2 = m.Transformation2
                                          /\ rows[n].Transformation3 = m.Transformation3
                                          /\ rows[n].Converter = m.Converter
                                    /\ ~found =>
                                          /\ rows[n].Source_Field = None
                                          /\ rows[n].Transformation1 = None
                                          /\ rows[n].Transformation2 = None
                                          /\ rows[n].Transformation3 = None
                                          /\ rows[n].Converter = None
                    /\ Cardinality({n \in DOMAIN rows : rows[n].Target_Field # None})
                          = Len(header_mapping)

\* a new header has one source of the template and lacks another
C26_Witness ==
    \E w \in Workers :
        /\ worker[w].pc = "derived"
        /\ worker[w].result.ok
        /\ \E src \in NewSources(w) :
              \E i, j \in DOMAIN template[src.Kind] :
                  /\ template[src.Kind][i].Source_Field \in Range(src.Header)
                  /\ template[src.Kind][j].Source_Field # None
                  /\ template[src.Kind][j].Source_Field \notin Range(src.Header)
                  /\ template[src.Kind][j].Transformation1 # None

\* C27: the rows returned for a new header have Orders that differ from one
\* another and leave no gap: they are 1 to the number of the rows.
C27_OrdersDenseAndDistinct ==
    \A w \in Workers :
        (worker[w].pc = "derived" /\ worker[w].result.ok) =>
            \A src \in NewSources(w) :
                LET rows == RowsFor(worker[w].result.mappings, src.Hash)
                IN  /\ \A a, b \in DOMAIN rows : a # b => rows[a].Order # rows[b].Order
                    /\ {rows[n].Order : n \in DOMAIN rows} = 1..Len(rows)

\* An expression wrapped in a transformation, or left as it is by an empty one.
Wrapped(transformation, expression) ==
    IF is_nan_or_empty_text(transformation) THEN expression
    ELSE Replace(transformation, expression)

\* C28: there is one expression for every mapping row, in the order of the
\* rows: NULL for a row without a Source_Field, otherwise the Source_Field
\* wrapped in Transformation1, Transformation2 and Transformation3, in that
\* order, each one that is not empty, whether or not the one before it is.
C28_EveryTransformationWraps ==
    (reader.pc = "compiled" /\ reader.out.ok) =>
        /\ Len(reader.out.expressions) = Len(reader.mappings)
        /\ \A i \in DOMAIN reader.mappings :
              LET m == reader.mappings[i]
              IN  /\ reader.out.expressions[i].as = Lower(m.Target_Field)
                  /\ reader.out.expressions[i].expression
                        = IF is_nan_or_empty_text(m.Source_Field)
                             THEN <<"NULL">>
                             ELSE Wrapped(m.Transformation3,
                                     Wrapped(m.Transformation2,
                                        Wrapped(m.Transformation1, <<m.Source_Field>>)))

\* The listing of the run without its entries that have no href.
WellFormed(remote) == {x \in remote : x.href # NullStr}

\* C29: an entry of the listing without an href is left out before the
\* reconciliation: the journal is reconciled against the other entries of the
\* listing, no journal row has a null href, and the synchronizer is not called
\* for one.
C29_MissingHrefDropped ==
    /\ \A row \in journal : row.href # NullStr
    /\ \A m \in todo \cup Synced : m.href # NullStr
    /\ pc = "syncing" => journal = Reconcile(before, WellFormed(listing))

\* C30: whatever listing the next run reconciles the journal against, a row it
\* writes with active = 0 has a key that the listing does not have: a row that
\* an earlier run soft-deleted is active again when its entry is listed again.
C30_InactiveOnlyIfUnlisted ==
    pc = "idle" =>
        \A pages \in IndexPages(now) :
            LET remote == if_remote_files(pages)
            IN  \A row \in Reconcile(journal, remote) :
                    row.active = 0 => Key(row) \notin Keys(remote)

====
